---- MODULE Spec2Model ----
(***************************************************************************)
(* Stimutter: EventStore (src/src/event-store.js), an observable state     *)
(* container built on the Node.js EventEmitter, and the useStore React     *)
(* hook (src/src/usestore.js).                                             *)
(*                                                                         *)
(* setState is synchronous and re-entrant: the listeners it notifies may   *)
(* call setState, enlist or a cancel function, or throw.  The model keeps  *)
(* the call stack of setState activations explicitly; one step is one      *)
(* statement block of the store or one call made by a listener.            *)
(***************************************************************************)
EXTENDS Integers, Sequences, FiniteSets, TLC

\* ------------------------------------------------------------------ bounds
MaxUpdates == 3      \* setState calls that assign the state, per behaviour
MaxRegs    == 3      \* enlist calls per behaviour
MaxNestedRegs == 2   \* the same, where listeners call the store themselves
MaxPasses  == 2      \* setState calls where listeners change the listener list
MaxDepth   == 2      \* nested setState activations the call stack can hold
MaxRenders == 3      \* renders of one consumer per behaviour

\* ------------------------------------------------------------ state values
Stores == {"s1", "s2"}
Keys   == {"a", "b"}

\* A value of a state key: a primitive, or a nested object given by its
\* set of <<field, number>> pairs.  Undefined is what reading a key that the
\* object does not have yields.
Prim(n) == [isObj |-> FALSE, n |-> n, fields |-> {}]
Obj(F)  == [isObj |-> TRUE, n |-> 0, fields |-> F]
Undefined == Prim(0)

EmptyState == [k \in Keys |-> Undefined]

InitialStates ==
    { EmptyState,
      [a |-> Prim(1), b |-> Obj({<<"x", 1>>})] }

\* The partial states handed to setState; a key mapped to Undefined is a key
\* the partial does not have.
Partials ==
    { EmptyState,
      [a |-> Prim(2), b |-> Undefined],
      [a |-> Prim(3), b |-> Obj({<<"y", 2>>})] }

\* let newState = {...prevState, ...updateState}
ShallowMergeDeep(prevState, updateState) ==
    [k \in Keys |->
        IF updateState[k] = Undefined THEN prevState[k]
        ELSE IF updateState[k].isObj /\ prevState[k].isObj
             THEN Obj(prevState[k].fields \cup updateState[k].fields)
             ELSE updateState[k]]

ShallowMerge(prevState, updateState) ==
    [k \in Keys |-> IF updateState[k] # Undefined THEN updateState[k]
                                                 ELSE prevState[k]]

\* ------------------------------------------------------------- callbacks
\* A callback is a function object; inst distinguishes the closures that
\* successive runs of the hook's effect create.
PlainFns == {"f", "g"}
Fn(name) == [fn |-> name, inst |-> 0]
PlainCallbacks == {Fn(n) : n \in PlainFns}

\* The component instances that call useStore.
Consumers == {"c1"}
NoComp == [phase |-> "unmounted",      \* "unmounted" or "mounted"
           shownStore |-> "none",      \* the eventStore of the last render
           shownSnap |-> EmptyState,   \* what useStore returned to that render
           pending |-> FALSE,          \* the last render's effect has not run
           effStore |-> "none",        \* the store the effect in force enlisted on
           effCb |-> Fn("none"),       \* its handleChange closure
           dirty |-> FALSE,            \* forceUpdate called, not yet rendered
           renders |-> 0,              \* history: renders so far
           closures |-> 0,             \* history: handleChange closures so far
           stale |-> FALSE]            \* history: a handleChange closure ran
                                       \* forceUpdate after its cleanup

Max(S) == CHOOSE x \in S : \A y \in S : y <= x

VARIABLES
    state,       \* state[s]: this.state of store s
    listeners,   \* listeners[s]: the "update" listener array of store s
    stack,       \* activations of setState, outermost first
    exc,         \* the exception in flight: "none", "Error", "RangeError"
    cancels,     \* the cancel functions enlist has returned, in order
    init,        \* history: the initialState each store was built with
    applied,     \* history: per store, the partials assigned so far
    reentered,   \* history: some listener has called setState
    thrownIn,    \* history: the setState calls a listener's exception ended
    comp,        \* comp[c]: the React component instance c that calls useStore
    heap,        \* heap[o]: the contents of the state object o
    ref,         \* ref[s]: the object that this.state of store s refers to
    held,        \* the objects the application holds a reference to
    notes        \* history: per registration, its notifications

storeVars == <<state, listeners, stack, exc, cancels>>
histVars  == <<init, applied, reentered, thrownIn, notes>>
heapVars  == <<heap, ref, held>>
vars == <<state, listeners, stack, exc, cancels, init, applied, reentered,
          thrownIn, comp, heap, ref, held, notes>>


\* ------------------------------------------------------- EventEmitter list
\* this.on("update", listener): append, duplicates allowed.
addListener(list, reg) == Append(list, reg)

LastIndexOf(list, cb) ==
    LET I == {i \in 1..Len(list) : list[i].cb = cb}
    IN  IF I = {} THEN 0 ELSE Max(I)

RemoveAt(list, p) == SubSeq(list, 1, p - 1) \o SubSeq(list, p + 1, Len(list))

\* A removal of every entry whose function is listener.
removeListenerAll(list, cb) == SelectSeq(list, LAMBDA e : e.cb # cb)

\* this.off("update", listener): removes the most recently added entry whose
\* function is listener; nothing when there is none.
removeListener(list, cb) ==
    LET p == LastIndexOf(list, cb)
    IN  IF p = 0 THEN list ELSE RemoveAt(list, p)

\* ------------------------------------------------------------- instances
\* The emitter whose "update" listeners the methods of store s use: the
\* store is its own EventEmitter, set up by super() for each instance.
EmitterShared(s) == "s1"

EmitterOf(s) == s

\* this.state = newState, where newState is the object that the spread
\* {...prevState, ...updateState} creates: the heap and the object of
\* this.state after the assignment, from the heap hp and the object before.
StoreSnapshotInPlace(hp, prevRef, newState) ==
    [heap |-> [hp EXCEPT ![prevRef] = newState], ref |-> prevRef]

StoreSnapshot(hp, prevRef, newState) ==
    [heap |-> Append(hp, newState), ref |-> Len(hp) + 1]

\* ------------------------------------------------------------------ Init
Init ==
    /\ \E st \in InitialStates : state = [s1 |-> st, s2 |-> EmptyState]
    /\ init = state
    /\ listeners = [s \in Stores |-> <<>>]
    /\ stack = <<>>
    /\ exc = "none"
    /\ cancels = <<>>
    /\ applied = [s \in Stores |-> <<>>]
    /\ reentered = FALSE
    /\ thrownIn = {}
    /\ comp = [c \in Consumers |-> NoComp]
    /\ heap = <<state["s1"], state["s2"]>>
    /\ ref = [s1 |-> 1, s2 |-> 2]
    /\ held = IF state["s1"] = EmptyState THEN {} ELSE {1}
    /\ notes = <<>>

\* ---------------------------------------------------------- registrations
\* What enlist(cb) on store s returns: the cancel function, which holds s
\* and cb; used tells that it has been called.
Registration(s, cb) == [store |-> s, cb |-> cb, used |-> FALSE]

\* The notes of the notifications after a call of the listener of the
\* registration r with the objects args: the object it got as next, and
\* whether every previous it got was the next of the call before.
Notified(nts, r, args) ==
    [q \in DOMAIN nts \cup {r} |->
        IF q # r THEN nts[q]
        ELSE [lastNext |-> args.next,
              chained |-> IF r \in DOMAIN nts
                          THEN nts[r].chained /\ args.prev = nts[r].lastNext
                          ELSE TRUE]]

\* ------------------------------------------------------------ call stack
Top == stack[Len(stack)]
Pop(stk) == SubSeq(stk, 1, Len(stk) - 1)
SetTop(stk, fr) == [stk EXCEPT ![Len(stk)] = fr]

\* The listener the innermost emit is running, when it is running one.
RunningCb == Top.called[Len(Top.called)].cb

\* Code that may call the store: the application when no setState is active,
\* or the body of the plain listener that is running.
CanCall ==
    /\ exc = "none"
    /\ IF stack = <<>> THEN TRUE
       ELSE Top.running /\ RunningCb.fn \in PlainFns

TotalApplied == Len(applied["s1"]) + Len(applied["s2"])

\* History only: note on every active emit of store s that the listener list
\* of s was changed while the emit was in progress.
MarkMutated(stk, s) ==
    [j \in 1..Len(stk) |->
        IF stk[j].store = s THEN [stk[j] EXCEPT !.mutated = TRUE] ELSE stk[j]]

\* History only: note on every active emit that a setState was made from
\* inside it.
MarkNested(stk) == [j \in 1..Len(stk) |-> [stk[j] EXCEPT !.nested = TRUE]]

\* --------------------------------------------------------------- emit
\* emit copies the listener array before it calls the listeners.
arrayClone(list) == list

\* The list one emit walks: its own copy.
PassListenersLive(fr) == listeners[fr.store]

PassListeners(fr) == fr.snap

\* this.emit("update", prevState, newState)
EmitArgsSwapped(prevState, newState) == [prev |-> newState, next |-> prevState]

EmitArgsAfterAssign(prevState, newState) == [prev |-> newState, next |-> newState]

EmitArgs(prevState, newState) == [prev |-> prevState, next |-> newState]

\* A listener of the innermost emit throws e: emit has no try/catch, so the
\* exception leaves emit and setState, whose activation ends.
emitOnThrowCaught(stk, e) ==
    [stack |-> SetTop(stk, [stk[Len(stk)] EXCEPT !.running = FALSE]),
     exc |-> "none"]

emitOnThrow(stk, e) == [stack |-> Pop(stk), exc |-> e]

\* The loop index of emit is a local of the activation: the emit that called
\* the listener which made a nested setState resumes where it was.
emitReturnSharedIndex(stk) ==
    IF Len(stk) > 1
    THEN SetTop(Pop(stk), [stk[Len(stk) - 1] EXCEPT
                              !.i = Len(stk[Len(stk) - 1].snap)])
    ELSE Pop(stk)

emitReturn(stk) == Pop(stk)

\* for (let i = 0; i < len; ++i)
NextIndexStuck(i) == i

NextIndex(i) == i + 1

\* this.emit("update", prevState, newState): the listeners the pass will
\* call, whatever the two states are.
emitIfChanged(list, prevState, newState) ==
    IF prevState = newState THEN <<>> ELSE arrayClone(list)

emit(list, prevState, newState) == arrayClone(list)

\* this.state of every store when an exception leaves the emit of the
\* activation fr: the assignment of line 12 stays, nothing undoes it.
stateOnThrowRolledBack(st, fr) == [st EXCEPT ![fr.store] = fr.before]

stateOnThrow(st, fr) == st

\* ------------------------------------------------------------- setState
\* setState(updateState) up to the first listener call: lines 10-13.
SetState(s, updateState) ==
    /\ CanCall
    /\ Len(stack) < MaxDepth
    /\ TotalApplied < MaxUpdates
    /\ LET prevState == state[s]
           newState  == ShallowMerge(prevState, updateState)
           kept      == StoreSnapshot(heap, ref[s], newState)
           frame == [store |-> s,
                     snap |-> emit(listeners[EmitterOf(s)], prevState, newState),
                     i |-> 0,
                     running |-> FALSE,
                     args |-> EmitArgs(prevState, newState),
                     refs |-> EmitArgs(ref[s], kept.ref),
                     before |-> state[s], stored |-> newState,
                     begun |-> listeners[EmitterOf(s)], called |-> <<>>,
                     nested |-> FALSE, mutated |-> FALSE,
                     upd |-> TotalApplied + 1, afterReentry |-> reentered,
                     forced |-> [c \in Consumers |-> 0]]
       IN  /\ state' = [state EXCEPT ![s] = newState]
           /\ heap' = kept.heap
           /\ ref' = [ref EXCEPT ![s] = kept.ref]
           /\ applied' = [applied EXCEPT ![s] = Append(@, updateState)]
           /\ stack' = Append(MarkNested(stack), frame)
    /\ reentered' = (reentered \/ stack # <<>>)
    /\ UNCHANGED <<held, listeners, exc, cancels, init, thrownIn, notes, comp>>

\* A listener calls setState when the call stack is full: the engine raises
\* RangeError, either on entry to setState (nothing assigned) or at the call
\* of emit (the state is assigned already).
StackOverflow(s, updateState, assigned) ==
    /\ CanCall
    /\ Len(stack) = MaxDepth
    /\ IF assigned
       THEN /\ TotalApplied < MaxUpdates
            /\ state' = [state EXCEPT ![s] = ShallowMerge(state[s], updateState)]
            /\ LET kept == StoreSnapshot(heap, ref[s], state'[s])
               IN  heap' = kept.heap /\ ref' = [ref EXCEPT ![s] = kept.ref]
            /\ applied' = [applied EXCEPT ![s] = Append(@, updateState)]
       ELSE UNCHANGED <<state, applied, heap, ref>>
    /\ exc' = "RangeError"
    /\ stack' = MarkNested(stack)
    /\ reentered' = TRUE
    /\ UNCHANGED <<held, listeners, cancels, init, thrownIn, notes, comp>>

\* emit calls the next listener of its list.
Call ==
    /\ exc = "none"
    /\ stack # <<>>
    /\ ~Top.running
    /\ Top.i < Len(PassListeners(Top))
    /\ LET l == PassListeners(Top)[Top.i + 1]
       IN  stack' = SetTop(stack,
                [Top EXCEPT !.i = NextIndex(@), !.running = TRUE,
                            !.called = Append(@,
                                [reg |-> l.reg, cb |-> l.cb, args |-> Top.args,
                                 live |-> \E j \in 1..Len(listeners[Top.store]) :
                                     listeners[Top.store][j].reg = l.reg])])
    /\ UNCHANGED <<heapVars, state, listeners, exc, cancels, init, applied,
                   reentered, thrownIn, comp>>

Invoke == Call /\ UNCHANGED notes

\* The same call, noted in the history of the registration.
NotedInvoke ==
    /\ Call
    /\ notes' = Notified(notes, Top'.called[Len(Top'.called)].reg, Top.refs)

\* A plain listener returns.
ObserverReturn ==
    /\ exc = "none"
    /\ stack # <<>>
    /\ Top.running
    /\ RunningCb.fn \in PlainFns
    /\ stack' = SetTop(stack, [Top EXCEPT !.running = FALSE])
    /\ UNCHANGED <<heapVars, state, listeners, exc, cancels, histVars, comp>>

\* emit has called every listener of its list: emit and setState return.
EmitReturn ==
    /\ exc = "none"
    /\ stack # <<>>
    /\ ~Top.running
    /\ Top.i >= Len(PassListeners(Top))
    /\ stack' = emitReturn(stack)
    /\ UNCHANGED <<heapVars, state, listeners, exc, cancels, histVars, comp>>

\* The exception e leaves the listener the innermost emit is running;
\* setState has no handler for it and does nothing more.
Raise(e) ==
    LET r == emitOnThrow(stack, e)
    IN  /\ stack' = r.stack
        /\ exc' = r.exc
        /\ state' = stateOnThrow(state, Top)
        /\ thrownIn' = thrownIn \cup
                {[upd |-> Top.upd, skipped |-> Len(Top.begun) - Len(Top.called)]}
        /\ UNCHANGED <<heapVars, listeners, cancels, init, applied,
                       reentered, notes, comp>>

\* A plain listener throws.
ObserverThrow ==
    /\ exc = "none"
    /\ stack # <<>>
    /\ Top.running
    /\ RunningCb.fn \in PlainFns
    /\ Raise("Error")

\* A listener whose own call of setState threw does not catch the exception.
ObserverRethrow ==
    /\ exc # "none"
    /\ stack # <<>>
    /\ Raise(exc)

\* A listener whose own call of setState threw catches the exception.
ObserverCatch ==
    /\ exc # "none"
    /\ stack # <<>>
    /\ exc' = "none"
    /\ UNCHANGED <<heapVars, state, listeners, stack, cancels, histVars, comp>>

\* The application that called the outermost setState handles the exception.
CallerCatch ==
    /\ exc # "none"
    /\ stack = <<>>
    /\ exc' = "none"
    /\ UNCHANGED <<heapVars, state, listeners, stack, cancels, histVars, comp>>

\* ----------------------------------------------------- enlist and cancel
\* enlist(listener): this.on("update", listener); returns the cancel function
\* () => this.off("update", listener), which holds the store and the listener.
Enlist(s, cb) ==
    /\ CanCall
    /\ Len(cancels) < MaxRegs
    /\ LET r == Len(cancels) + 1
       IN  /\ listeners' = [listeners EXCEPT
                    ![EmitterOf(s)] = addListener(@, [cb |-> cb, reg |-> r])]
           /\ cancels' = Append(cancels, Registration(s, cb))
    /\ stack' = MarkMutated(stack, s)
    /\ UNCHANGED <<heapVars, state, exc, histVars, comp>>

\* A call of the cancel function that the r-th enlist returned.
Cancel(r) ==
    /\ CanCall
    /\ r \in 1..Len(cancels)
    /\ LET s == cancels[r].store
       IN  /\ listeners' = [listeners EXCEPT
                    ![EmitterOf(s)] = removeListener(@, cancels[r].cb)]
           /\ stack' = MarkMutated(stack, s)
    /\ cancels' = [cancels EXCEPT ![r].used = TRUE]
    /\ UNCHANGED <<heapVars, state, exc, histVars, comp>>

\* ------------------------------------------------- getState and objects
\* getState(): returns this.state, the object itself; the caller holds it.
GetState(s) ==
    /\ CanCall
    /\ held' = held \cup {ref[s]}
    /\ UNCHANGED <<storeVars, histVars, comp, heap, ref>>

\* The application assigns v to the property k of an object it holds, as in
\* store.getState().a = v: an object that is this.state of a store is
\* what getState() of that store returns afterwards.
Mutate(o, k, v) ==
    /\ CanCall
    /\ o \in held
    /\ heap[o][k] # v
    /\ heap' = [heap EXCEPT ![o][k] = v]
    /\ state' = [s \in Stores |-> heap'[ref[s]]]
    /\ UNCHANGED <<listeners, stack, exc, cancels, histVars, comp, ref, held>>

\* ------------------------------------------------------ the store alone
\* One store whose listeners only return: the application calls setState,
\* enlist and the cancel functions between the notification passes.
AtTop == stack = <<>>

AppSetState(p)  == AtTop /\ SetState("s1", p)
AppEnlist(cb)   == AtTop /\ Enlist("s1", cb)
AppCancel(r)    == AtTop /\ Cancel(r)

Next ==
    \/ \E p \in Partials : AppSetState(p)
    \/ \E cb \in PlainCallbacks : AppEnlist(cb)
    \/ \E r \in 1..MaxRegs : AppCancel(r)
    \/ Invoke
    \/ ObserverReturn
    \/ EmitReturn

Spec == Init /\ [][Next]_vars

\* ------------------------------------------- the store and its listeners
\* One store whose listeners may, while they are notified, call enlist and
\* the cancel functions, and throw.
ListenerPartials == {[a |-> Prim(2), b |-> Undefined]}

InitListeners == Init /\ state["s1"] = EmptyState

PassSetState(p) == AtTop /\ Len(applied["s1"]) < MaxPasses /\ SetState("s1", p)
AnyEnlist(cb)   == Len(cancels) < MaxNestedRegs /\ Enlist("s1", cb)
AnyCancel(r)    == Cancel(r)

NextListeners ==
    \/ \E p \in ListenerPartials : PassSetState(p)
    \/ \E cb \in PlainCallbacks : AnyEnlist(cb)
    \/ \E r \in 1..MaxNestedRegs : AnyCancel(r)
    \/ Invoke
    \/ ObserverReturn
    \/ EmitReturn
    \/ ObserverThrow
    \/ CallerCatch

SpecListeners == InitListeners /\ [][NextListeners]_vars

\* ------------------------------------------------- re-entrant setState
\* One store whose listeners may, while they are notified, call setState on
\* the store, throw, and catch what their own calls of setState throw; the
\* application registers the listeners between the passes.
AnySetState(p) == SetState("s1", p)
TopEnlist(cb)  == AtTop /\ Len(cancels) < MaxNestedRegs /\ Enlist("s1", cb)
TopCancel(r)   == AtTop /\ Cancel(r)

NextReentrant ==
    \/ \E p \in ListenerPartials : AnySetState(p)
    \/ \E p \in ListenerPartials, assigned \in BOOLEAN :
            StackOverflow("s1", p, assigned)
    \/ \E cb \in PlainCallbacks : TopEnlist(cb)
    \/ \E r \in 1..MaxNestedRegs : TopCancel(r)
    \/ NotedInvoke
    \/ ObserverReturn
    \/ EmitReturn
    \/ ObserverThrow
    \/ ObserverRethrow
    \/ ObserverCatch
    \/ CallerCatch

SpecReentrant == InitListeners /\ [][NextReentrant]_vars

\* The same with no cancel function called, and with the progress of one
\* thread: emit goes on to its next listener or returns, an exception in
\* flight is handled or passed on, and the body of every listener ends.
NextReentrantFair ==
    \/ \E p \in ListenerPartials : AnySetState(p)
    \/ \E p \in ListenerPartials, assigned \in BOOLEAN :
            StackOverflow("s1", p, assigned)
    \/ \E cb \in PlainCallbacks : TopEnlist(cb)
    \/ Invoke
    \/ ObserverReturn
    \/ EmitReturn
    \/ ObserverThrow
    \/ ObserverRethrow
    \/ ObserverCatch
    \/ CallerCatch

SpecReentrantFair ==
    /\ InitListeners /\ [][NextReentrantFair]_vars
    /\ WF_vars(Invoke)
    /\ WF_vars(EmitReturn)
    /\ WF_vars(ObserverRethrow \/ ObserverCatch)
    /\ SF_vars(ObserverReturn)

\* ======================================================================
\* Properties
\* ======================================================================
Regs(list) == [j \in 1..Len(list) |-> list[j].reg]
IsPrefix(a, b) == Len(a) <= Len(b) /\ \A j \in 1..Len(a) : a[j] = b[j]
Cbs(list)  == [j \in 1..Len(list) |-> list[j].cb]

\* The list without the entry that the r-th enlist added.
RemoveReg(list, r) == SelectSeq(list, LAMBDA e : e.reg # r)

\* The value of key k in the last partial of store s that has k, or the
\* initial value of k when no partial has it.
LastValue(s, k) ==
    LET I == {i \in 1..Len(applied[s]) : applied[s][i][k] # Undefined}
    IN  IF I = {} THEN init[s][k] ELSE applied[s][Max(I)][k]

\* C1: after any sequence of setState calls, getState() is the left-to-right
\* shallow merge of the partials over the initial state: every top-level key
\* has the value of the last partial that contains it, or its initial value;
\* a value is replaced as a whole, never merged with the old one.
C1_ShallowMergeOfPartials ==
    \A s \in Stores, k \in Keys : state[s][k] = LastValue(s, k)

\* C1 witness: three setState calls have returned; key a, set to 1 at
\* construction, was overwritten twice and holds the last value; key b, a
\* nested object at construction, was replaced by another nested object.
C1_Witness ==
    /\ stack = <<>>
    /\ init["s1"] = [a |-> Prim(1), b |-> Obj({<<"x", 1>>})]
    /\ applied["s1"] = << [a |-> Prim(3), b |-> Obj({<<"y", 2>>})],
                          EmptyState,
                          [a |-> Prim(2), b |-> Undefined] >>
    /\ state["s1"] = [a |-> Prim(2), b |-> Obj({<<"y", 2>>})]

\* What one activation of setState has done so far agrees with the claim:
\* the listeners called are the first ones of the list registered when the
\* call began, in that order, and each got (previous, next).
PassAgrees(fr) ==
    /\ IsPrefix(Regs(fr.called), Regs(fr.begun))
    /\ \A j \in 1..Len(fr.called) :
            fr.called[j].args = [prev |-> fr.before, next |-> fr.stored]

\* A setState activation returns in this step.
Returns == Len(stack') < Len(stack) /\ exc' = "none"

C3_CancelAgainChangesNothing ==
    [][\A r \in 1..Len(cancels) :
          Cancel(r) /\ cancels[r].used => listeners' = listeners]_vars

\* C4: the first call of the cancel function of a registration removes that
\* registration and no other: the remaining listeners keep their order.
C4_CancelRemovesOwnRegistration ==
    [][\A r \in 1..Len(cancels) :
          Cancel(r) /\ ~cancels[r].used =>
              Cbs(listeners'[cancels[r].store]) =
                  Cbs(RemoveReg(listeners[cancels[r].store], r))]_vars

\* ---------------------------------------------- listeners that call back
\* C5: one notification pass walks the listener list as it was when its
\* setState call began: a listener enlisted during the pass is not called in
\* it, a listener cancelled during the pass is still called in it, the order
\* is that of the list at the start, and changing the list raises nothing.
C5_PassUsesListAtStart ==
    /\ [](\A j \in 1..Len(stack) :
            IsPrefix(Regs(stack[j].called), Regs(stack[j].begun)))
    /\ [][/\ Returns => Regs(Top.called) = Regs(Top.begun)
          /\ listeners' # listeners => exc' = "none"]_vars

\* C5 witness: a pass over two listeners is complete although the listener
\* list was changed while it ran: one of the listeners it called had already
\* been removed from the store's list when its turn came.
C5_Witness ==
    /\ stack # <<>>
    /\ ~Top.running
    /\ Top.mutated
    /\ Len(Top.begun) = 2
    /\ Len(Top.called) = 2
    /\ \E j \in 1..Len(Top.called) : ~Top.called[j].live

\* C6: an exception of a listener is not caught by the store: it ends the
\* setState call, is in flight at the caller of that setState, and no further
\* listener is called for that update.
C6_ListenerExceptionPropagates ==
    /\ [](\A j \in 1..Len(stack) :
            \A t \in thrownIn : t.upd # stack[j].upd)
    /\ [][thrownIn' # thrownIn => exc' # "none" /\ stack' = Pop(stack)]_vars

\* C6 witness: the exception of a listener has reached the application that
\* called setState, and a listener later in that pass was not called.
C6_Witness ==
    /\ stack = <<>>
    /\ exc = "Error"
    /\ \E t \in thrownIn : t.skipped > 0

\* A setState activation begins in this step.
Begins == Len(stack') > Len(stack)

\* C7: a listener that calls setState on the store during its notification
\* raises nothing and leaves the listener list alone: when the outer setState
\* returns, the registrations are those it started with, in the same order,
\* the outer pass has called all of them, and so has every later,
\* independent setState.
C7_ReentrantSetStateKeepsListeners ==
    [][/\ Begins => exc' = "none" /\ listeners' = listeners
       /\ Returns /\ (Top.nested \/ Top.afterReentry) =>
             /\ Regs(Top.called) = Regs(Top.begun)
             /\ listeners'[Top.store] = Top.begun]_vars

\* C7 witness: after a setState made from inside a listener, an independent
\* setState has called both registered listeners and is about to return.
C7_Witness ==
    /\ Len(stack) = 1
    /\ Top.afterReentry
    /\ ~Top.running
    /\ Len(Top.begun) = 2
    /\ Len(Top.called) = 2
    /\ listeners[Top.store] = Top.begun

\* C8 as stated: every setState call returns, also when listeners call
\* setState from inside their notification; none ends with the engine's
\* RangeError in flight at the application.
C8_EverySetStateReturns == ~(stack = <<>> /\ exc = "RangeError")

\* C8, amended: every setState call ends, by returning or by raising: the
\* nesting never exceeds what the call stack holds, one call never calls more
\* listeners than its list has, and an active call is eventually over.
C8_EverySetStateEnds ==
    /\ [](/\ Len(stack) <= MaxDepth
          /\ \A j \in 1..Len(stack) :
                Len(stack[j].called) <= Len(stack[j].begun))
    /\ (stack # <<>>) ~> (stack = <<>>)

\* C8 witness: a setState during which a listener called setState again has
\* returned to the application, with no exception raised in either call.
C8_Witness ==
    /\ stack = <<>>
    /\ exc = "none"
    /\ reentered
    /\ thrownIn = {}
    /\ Len(applied["s1"]) >= 2
    /\ listeners["s1"] # <<>>

\* ======================================================================
\* useStore
\* ======================================================================
\* React compares the dependency array [eventStore] of useEffect with that
\* of the previous run; the first run has no previous array.
DepsChangedNever(prevStore, nextStore) == prevStore = "none"

DepsChanged(prevStore, nextStore) == prevStore # nextStore

\* return () => delist(): the cleanup of the effect in force.
Cleanup(ls, c) ==
    IF comp[c].effStore = "none" THEN ls
    ELSE [ls EXCEPT ![comp[c].effStore] = removeListener(@, comp[c].effCb)]

\* A render of component c with the prop eventStore = s: useStore(s) runs
\* useReducer and useEffect and returns s.getState().  React runs the effects
\* of a render before it renders the component again.
Render(c, s) ==
    /\ AtTop
    /\ exc = "none"
    /\ ~comp[c].pending
    /\ comp[c].renders < MaxRenders
    /\ comp' = [comp EXCEPT ![c] =
            [@ EXCEPT !.phase = "mounted", !.shownStore = s,
                      !.shownSnap = state[s], !.pending = TRUE,
                      !.dirty = FALSE, !.renders = @ + 1]]
    /\ UNCHANGED <<heapVars, storeVars, histVars>>

\* React runs the effect of the last render of c: when the dependency
\* [eventStore] has changed, the cleanup of the previous effect and then the
\* effect, which enlists a new handleChange closure on the store.
RunEffect(c) ==
    /\ AtTop
    /\ exc = "none"
    /\ comp[c].pending
    /\ IF DepsChanged(comp[c].effStore, comp[c].shownStore)
       THEN LET s  == comp[c].shownStore
                cb == [fn |-> c, inst |-> comp[c].closures + 1]
                r  == Len(cancels) + 1
            IN  /\ listeners' = [Cleanup(listeners, c) EXCEPT
                                    ![s] = addListener(@, [cb |-> cb, reg |-> r])]
                /\ cancels' = Append(cancels, Registration(s, cb))
                /\ comp' = [comp EXCEPT ![c] =
                        [@ EXCEPT !.pending = FALSE, !.effStore = s,
                                  !.effCb = cb, !.closures = @ + 1]]
       ELSE /\ comp' = [comp EXCEPT ![c].pending = FALSE]
            /\ UNCHANGED <<listeners, cancels>>
    /\ UNCHANGED <<heapVars, state, stack, exc, histVars>>

\* React unmounts c: the cleanup of the effect in force runs.
Unmount(c) ==
    /\ AtTop
    /\ exc = "none"
    /\ comp[c].phase = "mounted"
    /\ ~comp[c].pending
    /\ listeners' = Cleanup(listeners, c)
    /\ comp' = [comp EXCEPT ![c] =
            [@ EXCEPT !.phase = "unmounted", !.shownStore = "none",
                      !.shownSnap = EmptyState, !.effStore = "none",
                      !.effCb = Fn("none"), !.dirty = FALSE]]
    /\ UNCHANGED <<heapVars, state, stack, exc, cancels, histVars>>

\* The calls of forceUpdate that the body of handleChange makes, added to
\* the n made before in the pass; dirty tells that a render is requested.
handleChangeCoalesced(n, dirty) == IF dirty THEN n ELSE n + 1

handleChange(n, dirty) == n + 1

\* The listener that emit is running is a handleChange closure: it calls
\* forceUpdate(), which asks React to render its component again (nothing
\* when the component is unmounted), and returns.
HandleChange ==
    /\ exc = "none"
    /\ stack # <<>>
    /\ Top.running
    /\ RunningCb.fn \in Consumers
    /\ LET c == RunningCb.fn
       IN  /\ comp' = [comp EXCEPT ![c] =
                   [@ EXCEPT !.dirty = (comp[c].phase = "mounted"),
                             !.stale = @ \/ RunningCb # comp[c].effCb]]
           /\ stack' = SetTop(stack,
                   [Top EXCEPT !.running = FALSE,
                               !.forced[c] = handleChange(@, comp[c].dirty)])
    /\ UNCHANGED <<heapVars, state, listeners, exc, cancels, histVars>>

\* A plain listener, while it is notified, has React unmount c at once
\* (root.unmount(), or a flushSync of the update that removes c): the
\* cleanup of the effect in force runs inside the pass.
SyncUnmount(c) ==
    /\ exc = "none"
    /\ stack # <<>>
    /\ Top.running
    /\ RunningCb.fn \in PlainFns
    /\ comp[c].phase = "mounted"
    /\ ~comp[c].pending
    /\ listeners' = Cleanup(listeners, c)
    /\ comp' = [comp EXCEPT ![c] =
            [@ EXCEPT !.phase = "unmounted", !.shownStore = "none",
                      !.shownSnap = EmptyState, !.effStore = "none",
                      !.effCb = Fn("none"), !.dirty = FALSE]]
    /\ stack' = MarkMutated(stack, Top.store)
    /\ UNCHANGED <<heapVars, state, exc, cancels, histVars>>

\* Two stores and one component; the application calls setState between
\* the steps of React.
HookPartials ==
    { [a |-> Prim(2), b |-> Undefined],
      [a |-> Prim(3), b |-> Obj({<<"y", 2>>})] }

HookSetState(s, p) == AtTop /\ SetState(s, p)

NextHook ==
    \/ \E c \in Consumers, s \in Stores : Render(c, s)
    \/ \E c \in Consumers : RunEffect(c)
    \/ \E c \in Consumers : Unmount(c)
    \/ \E s \in Stores, p \in HookPartials : HookSetState(s, p)
    \/ Invoke
    \/ HandleChange
    \/ EmitReturn

SpecHook == InitListeners /\ [][NextHook]_vars

\* The registrations of store s whose listener is a handleChange of c.
Owned(c, s) == {j \in 1..Len(listeners[s]) : listeners[s][j].cb.fn = c}

EffectHasRun(c) == comp[c].effStore # "none"

\* C9 as stated: once the mount effect has run, and until unmount, the
\* consumer has exactly one registration, on the store it was last rendered
\* with, and none on any other store; after unmount it has none.
C9_OneRegistrationOnRenderedStore ==
    \A c \in Consumers :
        /\ EffectHasRun(c) =>
              \A s \in Stores :
                  Cardinality(Owned(c, s)) =
                      IF s = comp[c].shownStore THEN 1 ELSE 0
        /\ comp[c].phase = "unmounted" =>
              \A s \in Stores : Owned(c, s) = {}

\* C9, amended: once the mount effect has run, and until unmount, the
\* consumer has exactly one registration, on the store of the last render
\* whose effect has run, and none on any other store; that store is the one
\* it was last rendered with unless the effect of that render is still to
\* run; before the mount effect and after unmount it has none.
C9_OneRegistrationOnEffectStore ==
    \A c \in Consumers :
        /\ \A s \in Stores :
              Cardinality(Owned(c, s)) =
                  IF s = comp[c].effStore THEN 1 ELSE 0
        /\ EffectHasRun(c) /\ ~comp[c].pending =>
              comp[c].effStore = comp[c].shownStore
        /\ comp[c].phase = "unmounted" => ~EffectHasRun(c)

\* C9 witness: the component was rendered with one store, then with the
\* other, both effects have run, and its one registration is on the second.
C9_Witness ==
    /\ comp["c1"].phase = "mounted"
    /\ ~comp["c1"].pending
    /\ comp["c1"].closures = 2
    /\ comp["c1"].effStore = "s2"
    /\ Owned("c1", "s1") = {}
    /\ Cardinality(Owned("c1", "s2")) = 1

\* C10: a mounted consumer does not keep a stale snapshot: when no setState
\* is active, no render is requested and no effect is waiting, what its last
\* render got from useStore is the store's current state.
C10_NoStaleSnapshot ==
    \A c \in Consumers :
        /\ AtTop
        /\ comp[c].phase = "mounted"
        /\ ~comp[c].pending
        /\ ~comp[c].dirty
        => comp[c].shownSnap = state[comp[c].shownStore]

\* --------------------------------------------- the binding among listeners
\* One store with one component and plain listeners of the application,
\* which may throw and may have React unmount the component while they are
\* notified.
BindingSetState(p) == AtTop /\ SetState("s1", p)
BindingEnlist(cb)  == AtTop /\ Len(cancels) < MaxNestedRegs /\ Enlist("s1", cb)

NextBinding ==
    \/ \E c \in Consumers : Render(c, "s1")
    \/ \E c \in Consumers : RunEffect(c)
    \/ \E c \in Consumers : Unmount(c)
    \/ \E c \in Consumers : SyncUnmount(c)
    \/ \E p \in ListenerPartials : BindingSetState(p)
    \/ BindingEnlist(Fn("f"))
    \/ Invoke
    \/ HandleChange
    \/ ObserverReturn
    \/ ObserverThrow
    \/ CallerCatch
    \/ EmitReturn

SpecBinding == InitListeners /\ [][NextBinding]_vars

\* The registrations of c in a list of listeners.
OwnedIn(list, c) == {j \in 1..Len(list) : list[j].cb.fn = c}

\* A call of setState ends, by return or by an exception.
Ends == Len(stack') < Len(stack)

\* C11 as stated: every setState on the store that begins while the
\* consumer's registration is active causes exactly one forceUpdate for
\* that consumer before the call ends.
C11_EverySetStateForcesOnce ==
    [][Ends => \A c \in Consumers :
            Top.forced[c] = Cardinality(OwnedIn(Top.begun, c))]_vars

\* C11, amended: every setState on the store that begins while the
\* consumer's registration is active and that returns causes exactly one
\* forceUpdate for that consumer before it returns; a setState that ends by
\* the exception of a listener called before the handler causes none; each
\* run of the handler calls forceUpdate once, whether or not a render is
\* requested already, and changes neither the state nor the listeners.
C11_EveryDeliveryForcesOnce ==
    [][/\ Returns => \A c \in Consumers :
              Top.forced[c] = Cardinality(OwnedIn(Top.begun, c))
       /\ Ends /\ exc' # "none" => \A c \in Consumers :
              OwnedIn(Top.called, c) = {} => Top.forced[c] = 0
       /\ HandleChange =>
              /\ Top'.forced[RunningCb.fn] = Top.forced[RunningCb.fn] + 1
              /\ state' = state /\ listeners' = listeners /\ exc' = exc
              /\ Len(stack') = Len(stack)]_vars

\* C11 witness: two calls of setState have returned with no render between
\* them, and the second one also made one call of forceUpdate.
C11_Witness ==
    /\ stack # <<>>
    /\ Top.upd = 2
    /\ ~Top.running
    /\ Top.i = Len(Top.snap)
    /\ comp["c1"].renders = 1
    /\ OwnedIn(Top.begun, "c1") # {}
    /\ Top.forced["c1"] = 1

\* C12: once the cleanup of a consumer's binding has run, the store calls no
\* forceUpdate for that consumer through the handler of that binding.
C12_NoForceUpdateAfterCleanup ==
    \A c \in Consumers : ~comp[c].stale

\* ------------------------------------------- the store and its snapshots
\* One store whose state objects the application reads with getState and
\* may assign to; its listeners only return.
SnapshotEnlist(cb) == AtTop /\ Len(cancels) < MaxNestedRegs /\ Enlist("s1", cb)
SnapshotValues == {Prim(7)}
SnapshotPartials == {EmptyState} \cup ListenerPartials

NextSnapshots ==
    \/ \E p \in SnapshotPartials : PassSetState(p)
    \/ AtTop /\ GetState("s1")
    \/ \E o \in 1..(MaxPasses + 2), v \in SnapshotValues :
            AtTop /\ Mutate(o, "a", v)
    \/ SnapshotEnlist(Fn("f"))
    \/ \E r \in 1..MaxNestedRegs : AppCancel(r)
    \/ Invoke
    \/ ObserverReturn
    \/ EmitReturn

SpecSnapshots == Init /\ [][NextSnapshots]_vars

\* C13: every setState stores a newly created object, distinct from every
\* object there was before, whose contents are the merge (also when the
\* partial is empty or changes nothing), and leaves the contents of every
\* earlier object, whoever holds it, as they were.
C13_SetStateStoresFreshSnapshot ==
    [][\A s \in Stores, p \in SnapshotPartials : SetState(s, p) =>
            /\ ref'[s] \notin 1..Len(heap)
            /\ ref'[s] \in 1..Len(heap')
            /\ heap'[ref'[s]] = ShallowMerge(state[s], p)
            /\ \A o \in 1..Len(heap) : heap'[o] = heap[o]]_vars

\* C13 witness: getState returned a snapshot, then a setState with the
\* empty partial returned: the store holds another object with the same
\* contents, and the application still holds the earlier one.
C13_Witness ==
    /\ AtTop
    /\ Len(applied["s1"]) = 1
    /\ applied["s1"][1] = EmptyState
    /\ 1 \in held
    /\ ref["s1"] = 3
    /\ heap[3] = heap[1]
    /\ heap[1] = init["s1"]

\* C14: the state of a store changes only in a call of its setState:
\* getState, enlist and the cancel functions leave it as it is and call no
\* listener, and nothing the holder of a reference that getState returned,
\* or of the initial state, does changes what getState returns.
C14_StateChangesOnlyInSetState ==
    [][/\ state' # state => applied' # applied
       /\ \/ GetState("s1")
          \/ \E cb \in PlainCallbacks : Enlist("s1", cb)
          \/ \E r \in 1..MaxNestedRegs : Cancel(r)
          => state' = state /\ stack' = stack]_vars

\* ------------------------------------------------------------ two stores
\* Two stores, both built with the default initial state, each with one
\* listener at most at a time; the application calls the methods of both
\* between the passes and assigns to the state objects it holds.
InstanceSetState(s, p) ==
    AtTop /\ TotalApplied < MaxPasses /\ SetState(s, p)
InstanceEnlist(s, cb)  ==
    AtTop /\ Len(cancels) < MaxNestedRegs /\ listeners[s] = <<>> /\ Enlist(s, cb)
InstanceCancel(r)      == AtTop /\ Cancel(r)
InstanceGetState(s)    == AtTop /\ GetState(s)
InstanceMutate(s, v)   == AtTop /\ Mutate(ref[s], "a", v)

NextInstances ==
    \/ \E s \in Stores, p \in ListenerPartials : InstanceSetState(s, p)
    \/ \E s \in Stores : InstanceEnlist(s, Fn("f"))
    \/ \E r \in 1..MaxNestedRegs : InstanceCancel(r)
    \/ \E s \in Stores : InstanceGetState(s)
    \/ \E s \in Stores, v \in SnapshotValues : InstanceMutate(s, v)
    \/ Invoke
    \/ ObserverReturn
    \/ EmitReturn

SpecInstances == InitListeners /\ [][NextInstances]_vars

\* The step is a call of a method of store s, or an assignment to the
\* object that is the state of s.
OperationOn(s) ==
    \/ \E p \in ListenerPartials : SetState(s, p)
    \/ \E cb \in PlainCallbacks : Enlist(s, cb)
    \/ \E r \in 1..Len(cancels) : cancels[r].store = s /\ Cancel(r)
    \/ GetState(s)
    \/ \E v \in SnapshotValues : Mutate(ref[s], "a", v)

\* C15: two stores share nothing: every operation on one leaves the state,
\* the state object and the listeners of the other as they are; a pass of
\* one store calls only listeners that were enlisted on it; and the two
\* stores, both built with the default initial state, never hold the same
\* state object.
C15_StoresAreIndependent ==
    /\ [][\A s \in Stores : OperationOn(s) =>
            \A t \in Stores \ {s} :
                /\ state'[t] = state[t]
                /\ ref'[t] = ref[t]
                /\ listeners'[t] = listeners[t]]_vars
    /\ [](\A k \in 1..Len(stack) : \A j \in 1..Len(stack[k].called) :
            cancels[stack[k].called[j].reg].store = stack[k].store)
    /\ [](ref["s1"] # ref["s2"])

\* C15 witness: both stores have a listener, the initial state object of
\* the first was assigned to, and a pass of the first store has called its
\* listener; the second store has its default state.
C15_Witness ==
    /\ listeners["s1"] # <<>>
    /\ listeners["s2"] # <<>>
    /\ stack # <<>>
    /\ Top.store = "s1"
    /\ Len(Top.called) = 1
    /\ heap[1].a = Prim(7)
    /\ state["s2"] = EmptyState
    /\ applied["s2"] = <<>>

\* The entries of a list of listeners whose function is cb, and the others.
CountOf(list, cb) == Cardinality({j \in 1..Len(list) : list[j].cb = cb})
Others(list, cb)  == SelectSeq(list, LAMBDA e : e.cb # cb)

\* C16: a call of a cancel function, which is off("update", observer),
\* removes at most one registration of its observer: when the observer is
\* registered the number of its registrations drops by exactly one, when it
\* is not the call changes nothing; the registrations of the other
\* callbacks stay as they are, in their order, and the call raises nothing.
C16_CancelRemovesAtMostOne ==
    [][\A r \in 1..Len(cancels) : Cancel(r) =>
          LET s  == cancels[r].store
              cb == cancels[r].cb
              n  == CountOf(listeners[s], cb)
          IN  /\ CountOf(listeners'[s], cb) = IF n > 0 THEN n - 1 ELSE 0
              /\ n = 0 => listeners' = listeners
              /\ Others(listeners'[s], cb) = Others(listeners[s], cb)
              /\ exc' = "none"]_vars

\* C16 witness: a callback was enlisted three times and one cancel function
\* was called once: two of its registrations are left.
C16_Witness ==
    /\ Len(cancels) = 3
    /\ \A r \in 1..3 : cancels[r].cb = Fn("f")
    /\ cancels[1].used /\ ~cancels[2].used /\ ~cancels[3].used
    /\ CountOf(listeners["s1"], Fn("f")) = 2

\* C17: every setState notifies, whether or not the merged state differs
\* from the previous one: its pass is over all the registrations there are
\* when it begins, and when no observer raises it returns after exactly
\* that many calls, the merged state stored; with no registration it
\* stores the state and returns.
C17_EverySetStateNotifies ==
    /\ [][/\ Begins => Top'.snap = listeners[Top'.store]
          /\ Returns => /\ Len(Top.called) = Len(Top.begun)
                        /\ state[Top.store] = Top.stored]_vars
    /\ [](exc = "none")

\* C17 witness: a setState that left the state as it was has called both
\* registered observers and is about to return.
C17_Witness ==
    /\ stack # <<>>
    /\ Top.before = Top.stored
    /\ Len(Top.begun) = 2
    /\ Len(Top.called) = 2
    /\ ~Top.running

\* C19: when an observer raises during setState the merged state of the
\* call stays stored and the registrations are as they were; a later
\* setState calls every observer registered when it begins, in order from
\* the first.
C19_StateKeptWhenObserverRaises ==
    /\ [][/\ thrownIn' # thrownIn =>
                /\ state'[Top.store] = Top.stored
                /\ listeners' = listeners
          /\ CallerCatch => state' = state /\ listeners' = listeners
          /\ Returns /\ thrownIn # {} =>
                Regs(Top.called) = Regs(Top.begun)]_vars
    /\ [](\A k \in Keys : state["s1"][k] = LastValue("s1", k))

\* C19 witness: the first setState ended by an observer's exception; the
\* second has called both registered observers and is about to return.
C19_Witness ==
    /\ \E t \in thrownIn : t.upd = 1
    /\ stack # <<>>
    /\ Top.upd = 2
    /\ Len(Top.begun) = 2
    /\ Len(Top.called) = 2
    /\ ~Top.running

\* The r-th registration is among the listeners of its store.
Registered(r) ==
    \E j \in 1..Len(listeners[cancels[r].store]) :
        listeners[cancels[r].store][j].reg = r

\* What C18 says of the notifications of the registered observers: the
\* previous state of each is the next state of the one before, and when no
\* setState is active and none has raised the next state of the last one
\* is the state of the store.
InUpdateOrder ==
    \A r \in DOMAIN notes : Registered(r) =>
        /\ notes[r].chained
        /\ AtTop /\ thrownIn = {} =>
              notes[r].lastNext = ref[cancels[r].store]

\* C18 as stated: across any sequence of setState calls, also re-entrant
\* ones, every observer that stays registered is notified in the order the
\* updates were applied.
C18_NotificationsInUpdateOrder == InUpdateOrder

\* C18, amended: as long as no observer has called setState from inside a
\* notification and no observer has raised, every observer that stays
\* registered is notified in the order the updates were applied.
C18_InUpdateOrderWithoutReentry ==
    ~reentered /\ thrownIn = {} => InUpdateOrder

\* C18 witness: two setState calls, none from a listener, have returned;
\* both registered observers got the state of the store as the next state
\* of their last notification.
C18_Witness ==
    /\ AtTop
    /\ ~reentered
    /\ thrownIn = {}
    /\ Len(applied["s1"]) = 2
    /\ Len(listeners["s1"]) = 2
    /\ \A r \in 1..Len(cancels) :
          /\ Registered(r)
          /\ r \in DOMAIN notes
          /\ notes[r].lastNext = ref["s1"]

====
